---- MODULE Spec2Model ----
(***************************************************************************)
(* vetiver-python: the artifact packager (pin_read_write.py) and the       *)
(* serving layer (server.py), as state machines.                           *)
(*                                                                         *)
(* Python values are tagged records, so that == between values of          *)
(* different Python types (str / list / tuple / None) is False, as in      *)
(* Python, and never the identity of the payload.                          *)
(***************************************************************************)
EXTENDS Integers, Sequences, FiniteSets, TLC

VARIABLES
    board,      \* the pin board handed to vetiver_pin_write / vetiver_pin_read
    model,      \* the VetiverModel handle (its attributes)
    v,          \* the handle returned by the last vetiver_pin_read, or None
    result,     \* outcome of the last packager call (error, warnings, value)
    api,        \* the VetiverAPI object: state, check_ptype, app (routes, cache)
    reqs,       \* documentation requests in flight: position and local schema
    resp,       \* the last HTTP response sent, with what the handler did
    docs,       \* every interface description returned so far
    pending,    \* the requests that wait for their body or handler: the place of
                \* each one's route in the app's routes, in ascending order
    given,      \* the handle handed to the write that made each version
    failures    \* the ways in which requests have failed in a handler so far

vars == <<board, model, v, result, given, api, reqs, resp, docs, pending, failures>>

pinVars == <<board, v, result, given>>
srvVars == <<api, reqs, resp, docs, pending, failures>>

----------------------------------------------------------------------------
(* Bounds *)

MaxWrites == 2      \* calls of board.pin_write per behaviour
MaxPosts == 2       \* calls of vetiver_post per behaviour
MaxBatch == 2       \* longest sequence of instances in a request body
MaxReqs == 2        \* documentation requests in flight at once
MaxPending == 1     \* requests that wait at once

----------------------------------------------------------------------------
(* Python values *)

None == [kind |-> "None"]
Absent == [kind |-> "absent"]          \* the attribute does not exist

\* A str holds one piece of text; a list or a tuple holds a sequence.
PyStr(s) == [kind |-> "str", v |-> <<s>>]
PyList(s) == [kind |-> "list", v |-> s]
PyTuple(s) == [kind |-> "tuple", v |-> s]

\* Python ==: values of different types are unequal, whatever they hold.
PyEq(a, b) == a.kind = b.kind /\ a.v = b.v

\* list(x) for a tuple x
ToList(t) == PyList(t.v)

\* `not x`: None and an empty tuple or list are false, a class is true.
Not(x) == x = None \/ (x.kind \in {"tuple", "list"} /\ x.v = <<>>)

NoDup(s) == \A i, j \in 1..Len(s) : i # j => s[i] # s[j]

\* JSON scalars: an integer, or a string (its characters).
JInt(n) == [int |-> n]
JStr(t) == [str |-> t]

----------------------------------------------------------------------------
(* pin_read_write.py *)

\* Values of board.fs.protocol: fsspec declares one tag as a str, several as
\* a list or a tuple of str.
Protocols ==
    { PyStr(t) : t \in {"rsc", "file", "s3", "s3a", "abfs", "gcs", "gs", "dbfs"} }
    \cup { PyList(<<"s3", "s3a">>), PyTuple(<<"s3", "s3a">>),
           PyList(<<"gcs", "gs">>), PyTuple(<<"gcs", "gs">>) }

\* A prototype: a pydantic class, its fields in declaration order, each with
\* a type, a bound or none, and a default or none (the field is required).
NoBound == [none |-> TRUE]
Gt(n) == [gt |-> n]
Required == [required |-> TRUE]

Schema(bounds, defaults) ==
    [kind |-> "schema", fields |-> <<"B", "C", "D">>,
     types |-> <<"integer", "integer", "integer">>,
     bounds |-> bounds, defaults |-> defaults]

\* The prototype made from the mock data, the CustomPrototype of the tests
\* (conint(gt=42), no defaults), and one with both bounds and defaults.
Prototype == Schema(<<NoBound, NoBound, NoBound>>, <<JInt(88), JInt(67), JInt(28)>>)
CustomPrototype == Schema(<<Gt(42), Gt(42), Gt(42)>>, <<Required, Required, Required>>)
BoundedPrototype == Schema(<<Gt(42), Gt(42), Gt(42)>>, <<JInt(88), JInt(67), JInt(50)>>)
Prototypes == {Prototype, CustomPrototype, BoundedPrototype}

\* model.prototype(): an instance without arguments exists when every field
\* has a default; otherwise the call raises ValidationError.
Instantiable(p) == \A i \in 1..Len(p.fields) : p.defaults[i] # Required

\* model.prototype().json(): the instance built from the defaults, serialized
\* as one JSON object, keys in field order; types and bounds are not in it.
PrototypeJson(p) ==
    [kind |-> "json", obj |-> [i \in 1..Len(p.fields) |-> <<p.fields[i], p.defaults[i]>>]]

VetiverMeta(user, version, url, required_pkgs, python_version) ==
    [kind |-> "VetiverMeta", user |-> user, version |-> version, url |-> url,
     required_pkgs |-> required_pkgs, python_version |-> python_version]

\* VetiverMeta.from_dict: the mapping becomes the user data, the rest is empty.
from_dict(d) == VetiverMeta(d.items, None, None, <<>>, None)

Users == { {}, {<<"team", "ds">>} }
DeclaredPkgs == { <<>>, <<"scikit-learn">>, <<"rsconnect-python", "scikit-learn">> }
PythonVersions == { None, PyTuple(<<>>), PyTuple(<<3, 9, 7>>) }

Metadatas ==
    { VetiverMeta(u, None, None, d, pv) : u \in Users, d \in DeclaredPkgs, pv \in PythonVersions }
    \cup { [kind |-> "dict", items |-> u] : u \in Users }

\* A handle: the attributes it has and their values.  An older model carries
\* its schema as ptype, a current one as prototype.
Handle(legacy, proto, meta) ==
    [attrs |-> {"model", "model_name", "description", "metadata"}
                 \cup (IF legacy THEN {"ptype"} ELSE {"prototype"}),
     model_name |-> "my_model",
     description |-> "A regression model for testing purposes",
     ptype |-> IF legacy THEN proto ELSE Absent,
     prototype |-> IF legacy THEN Absent ELSE proto,
     metadata |-> meta]

ModelHandles ==
    { Handle(l, p, m) : l \in BOOLEAN, p \in {None} \cup Prototypes, m \in Metadatas }

hasattr(m, a) == a \in m.attrs

\* Lines 56-62: convert an older model's ptype to prototype, a dict metadata
\* to VetiverMeta, on the object that was passed in.
Migrate(m) ==
    LET m1 == IF hasattr(m, "ptype")
              THEN [m EXCEPT !.prototype = m.ptype, !.ptype = Absent,
                             !.attrs = (m.attrs \cup {"prototype"}) \ {"ptype"}]
              ELSE m
    IN IF m1.metadata.kind = "dict"
       THEN [m1 EXCEPT !.metadata = from_dict(m1.metadata)]
       ELSE m1

\* get_board_pkgs(board): a chain of == tests on board.fs.protocol.
get_board_pkgs(prot) ==
    IF PyEq(prot, PyStr("rsc")) THEN [value |-> <<"rsconnect-python">>, warned |-> FALSE]
    ELSE IF PyEq(prot, PyStr("file")) THEN [value |-> <<>>, warned |-> FALSE]
    ELSE IF PyEq(prot, PyList(<<"s3", "s3a">>)) THEN [value |-> <<"s3fs">>, warned |-> FALSE]
    ELSE IF PyEq(prot, PyStr("abfs")) THEN [value |-> <<"adlfs">>, warned |-> FALSE]
    ELSE IF PyEq(prot, PyTuple(<<"gcs", "gs">>)) THEN [value |-> <<"gcsfs">>, warned |-> FALSE]
    ELSE [value |-> <<>>, warned |-> TRUE]

\* Line 64: the list that is persisted.
RequiredPkgs(prot, declared) == get_board_pkgs(prot).value \o declared

\* The metadata argument of board.pin_write, lines 71-80.
PinMetadata(prot, m) ==
    [user |-> m.metadata.user,
     vetiver_meta |->
        [required_pkgs |-> RequiredPkgs(prot, m.metadata.required_pkgs),
         prototype |-> IF Not(m.prototype) THEN None ELSE PrototypeJson(m.prototype),
         python_version |-> IF Not(m.metadata.python_version) THEN None
                            ELSE ToList(m.metadata.python_version)]]

\* board.pin_write: a versioned write adds a version, an unversioned one
\* replaces what is stored under the name; the store assigns the token.
board_pin_write(b, name, type, description, metadata, versioned) ==
    LET pin == [name |-> name, type |-> type, description |-> description,
                metadata |-> metadata, version |-> b.calls + 1]
    IN [b EXCEPT !.pins = IF versioned THEN Append(b.pins, pin) ELSE <<pin>>,
                 !.calls = b.calls + 1]

\* vetiver_pin_write(board, model, versioned): the board and the model after
\* the call, the error raised and whether a warning was emitted.
\* Lines 49-82: what the call does once the board has been accepted.
\* Line 75 raises while the arguments of board.pin_write are built, when the
\* prototype has a required field.
WriteModel(b, m, versioned) ==
    LET m2 == Migrate(m)
    IN IF ~Not(m2.prototype) /\ ~Instantiable(m2.prototype)
       THEN [board |-> b, model |-> m2, error |-> "ValidationError",
             warned |-> get_board_pkgs(b.protocol).warned]
       ELSE [board |-> board_pin_write(b, m2.model_name, "joblib", m2.description,
                                       PinMetadata(b.protocol, m2), versioned),
             model |-> m2,
             error |-> "",
             warned |-> get_board_pkgs(b.protocol).warned]

vetiver_pin_write_unguarded(b, m, versioned) == WriteModel(b, m, versioned)

vetiver_pin_write(b, m, versioned) ==
    IF ~b.allow_pickle_read
    THEN [board |-> b, model |-> m, error |-> "NotImplementedError", warned |-> FALSE]
    ELSE WriteModel(b, m, versioned)

\* The prototype rebuilt from what was persisted: the keys are the fields,
\* each value is the field's default and gives its type; what was persisted
\* names no bound.
PrototypeFromJson(j) ==
    [kind |-> "schema",
     fields |-> [i \in 1..Len(j.obj) |-> j.obj[i][1]],
     types |-> [i \in 1..Len(j.obj) |->
                   IF DOMAIN j.obj[i][2] = {"int"} THEN "integer" ELSE "string"],
     bounds |-> [i \in 1..Len(j.obj) |-> NoBound],
     defaults |-> [i \in 1..Len(j.obj) |-> j.obj[i][2]]]

\* VetiverModel.from_pin(board, name, version): the requested version, or the
\* latest one, as a handle in the current shape.
from_pin(b, version) ==
    LET found == { i \in 1..Len(b.pins) : version = None \/ <<b.pins[i].version>> = version.v }
    IN IF found = {}
       THEN [error |-> "NotFoundError", value |-> None]
       ELSE LET pin == b.pins[CHOOSE i \in found : \A k \in found : k <= i]
                vm == pin.metadata.vetiver_meta
            IN [error |-> "",
                value |->
                  [Handle(FALSE,
                          IF vm.prototype = None THEN None ELSE PrototypeFromJson(vm.prototype),
                          VetiverMeta(pin.metadata.user, PyStr(pin.version), None,
                                      vm.required_pkgs, vm.python_version))
                   EXCEPT !.description = pin.description, !.model_name = pin.name]]

\* vetiver_pin_read: a deprecation warning, then from_pin.
vetiver_pin_read(b, version) == from_pin(b, version)

NoResult == [op |-> "", error |-> "", warned |-> FALSE, value |-> <<>>]

(* Actions of the packager *)

\* vetiver_pin_write(board, model, versioned) on the caller's model.
PinWrite(versioned) ==
    /\ board.calls < MaxWrites
    /\ LET r == vetiver_pin_write(board, model, versioned)
       IN /\ board' = r.board
          /\ model' = r.model
          /\ given' = IF r.board.calls > board.calls THEN Append(given, model) ELSE given
          /\ result' = [op |-> "vetiver_pin_write", error |-> r.error,
                        warned |-> r.warned, value |-> <<>>]
    /\ UNCHANGED <<v, srvVars>>

\* vetiver_pin_write on the handle that was read back.
PinWriteBack(versioned) ==
    /\ board.calls < MaxWrites
    /\ v # None
    /\ LET r == vetiver_pin_write(board, v, versioned)
       IN /\ board' = r.board
          /\ v' = r.model
          /\ given' = IF r.board.calls > board.calls THEN Append(given, v) ELSE given
          /\ result' = [op |-> "vetiver_pin_write", error |-> r.error,
                        warned |-> r.warned, value |-> <<>>]
    /\ UNCHANGED <<model, srvVars>>

PinRead(version) ==
    /\ LET r == vetiver_pin_read(board, version)
       IN /\ v' = r.value
          /\ result' = [op |-> "vetiver_pin_read", error |-> r.error,
                        warned |-> TRUE, value |-> <<>>]
    /\ UNCHANGED <<board, model, given, srvVars>>

GetBoardPkgs ==
    /\ LET r == get_board_pkgs(board.protocol)
       IN result' = [op |-> "get_board_pkgs", error |-> "",
                     warned |-> r.warned, value |-> r.value]
    /\ UNCHANGED <<board, model, v, given, srvVars>>

----------------------------------------------------------------------------
(* server.py *)

\* A URL path: stem is the path without the slashes at its end, slashes
\* their number ("/predict/" is the stem "/predict" and one slash, "/" the
\* empty stem and one slash).
Path(stem, slashes) == [stem |-> stem, slashes |-> slashes]
Root == Path("", 1)

\* A route: its handler is the function that was decorated; the handler
\* vetiver_post attaches is custom_endpoint, whatever the endpoint's name.
Route(method, path, include_in_schema, handler, name) ==
    [method |-> method, path |-> path, include_in_schema |-> include_in_schema,
     handler |-> handler, name |-> name]

\* Line 52: the routes a new FastAPI() carries.
FactoryRoutes ==
    << Route("GET", Path("/openapi.json", 0), FALSE, "openapi", ""),
       Route("GET", Path("/docs", 0), FALSE, "swagger_ui_html", ""),
       Route("GET", Path("/docs/oauth2-redirect", 0), FALSE, "swagger_ui_redirect", ""),
       Route("GET", Path("/redoc", 0), FALSE, "redoc_html", "") >>

\* Lines 55-117: the routes _init_app attaches, in order.
InitRoutes ==
    << Route("GET", Root, FALSE, "docs_redirect", ""),
       Route("GET", Path("/ping", 0), TRUE, "ping", ""),
       Route("GET", Path("/__docs__", 0), FALSE, "rapidoc_pg", ""),
       Route("POST", Path("/predict", 1), TRUE, "prediction", "") >>

NoApp == [state |-> "uninit", check_ptype |-> FALSE, routes |-> <<>>, openapi_schema |-> None]

\* VetiverAPI(model, check_ptype): __init__ and _init_app.  In strict mode
\* the prediction route is declared over self.model.ptype.
VetiverAPI(m, check_ptype) ==
    IF check_ptype /\ ~hasattr(m, "ptype")
    THEN [NoApp EXCEPT !.state = "failed", !.check_ptype = check_ptype]
    ELSE [state |-> "built", check_ptype |-> check_ptype,
          routes |-> FactoryRoutes \o InitRoutes, openapi_schema |-> None]

vetiver_post_fresh_app(a, m, endpoint_name) ==
    [a EXCEPT !.routes = FactoryRoutes \o
                 << Route("POST", Path("/" \o endpoint_name, 1), TRUE, "custom_endpoint", endpoint_name) >>]

\* vetiver_post(endpoint_fx, endpoint_name): app.post appends the route.
vetiver_post(a, m, endpoint_name) ==
    IF a.check_ptype /\ ~hasattr(m, "ptype")
    THEN a
    ELSE [a EXCEPT !.routes = Append(a.routes,
              Route("POST", Path("/" \o endpoint_name, 1), TRUE, "custom_endpoint", endpoint_name))]

\* get_openapi(title, version, description, routes) and the logo, lines 163-169.
get_openapi(m, routes) ==
    [title |-> m.model_name \o " model API",
     version |-> "0.1.3",
     description |-> m.description,
     paths |-> { <<routes[i].path, routes[i].method>> :
                   i \in { k \in 1..Len(routes) : routes[k].include_in_schema } },
     x_logo |-> "../docs/figures/logo.svg"]

(* Request bodies: a JSON value is an integer or a string (its characters),
   a JSON object the sequence of <<key, value>> as sent; a body is one
   object or an array of objects, and holds its objects as a sequence either
   way. *)

\* Objects that validate: one without D, and one with its keys in another
\* order, a key sent twice and a number sent as a string.
Short == << <<"B", JInt(50)>>, <<"C", JInt(60)>> >>
Mixed == << <<"B", JInt(90)>>, <<"D", JInt(60)>>,
            <<"B", JStr(<<"\t", "4", "5", ".", "0">>)>>, <<"C", JInt(55)>> >>
GoodObjects == {Short, Mixed}

\* Objects that do not: one whose B is no integer, one whose B is not above
\* the bound.
BadObject == << <<"B", JStr(<<"x">>)>>, <<"C", JInt(60)>>, <<"D", JInt(70)>> >>
LowObject == << <<"B", JInt(7)>>, <<"C", JInt(60)>>, <<"D", JInt(70)>> >>

\* A batch of n objects that validate, the two taking turns.
Batch(n) == [i \in 1..n |-> IF i % 2 = 1 THEN Short ELSE Mixed]

\* One object, or an array of objects: the batches of up to MaxBatch
\* objects that validate, and one with an object that does not.
Bodies ==
    { [kind |-> "object", v |-> <<o>>] : o \in GoodObjects \cup {LowObject} }
    \cup { [kind |-> "array", v |-> Batch(n)] : n \in 0..MaxBatch }
    \cup { [kind |-> "array", v |-> <<Short, BadObject>>] }

Keys(o) == { o[i][1] : i \in 1..Len(o) }
Get(o, k) == o[CHOOSE i \in 1..Len(o) : o[i][1] = k][2]

\* Decoding a JSON object gives a dict: a key sent more than once keeps the
\* place of its first occurrence and the value of its last.
Dict(o) ==
    LET firsts == { i \in 1..Len(o) : \A j \in 1..(i - 1) : o[j][1] # o[i][1] }
        Nth(n) == CHOOSE i \in firsts : Cardinality({ j \in firsts : j <= i }) = n
        Last(k) == o[CHOOSE i \in 1..Len(o) :
                        o[i][1] = k /\ \A j \in (i + 1)..Len(o) : o[j][1] # k][2]
    IN [n \in 1..Cardinality(firsts) |-> <<o[Nth(n)][1], Last(o[Nth(n)][1])>>]

\* The decoded body: .json() of the request, or what the framework decodes
\* for a handler declared over the prototype.
json(body) == [kind |-> body.kind, v |-> [i \in 1..Len(body.v) |-> Dict(body.v[i])]]

(* The validation of an integer field on a string.  White space around the
   string is dropped.  A number is a - or none, then 0 or digits that do not
   start with 0.  A string that is no number is cleaned: one sign in front
   is set aside, zeros in front, a fraction of zeros only and single
   underscores inside are dropped, and the sign and what is left must be a
   number. *)

Some(x) == [some |-> x]
Nothing == [nothing |-> TRUE]
IsSome(x) == DOMAIN x = {"some"}

\* The white space characters: those of ASCII, those of Latin-1 (U+000B,
\* U+0085, U+00A0) as they are, and the ones beyond by their code points.
WhiteSpace ==
    {" ", "\t", "\n", "\r", "\f", "", "", " ",
     "U+1680", "U+2000", "U+2001", "U+2002", "U+2003", "U+2004", "U+2005",
     "U+2006", "U+2007", "U+2008", "U+2009", "U+200A", "U+2028", "U+2029",
     "U+202F", "U+205F", "U+3000"}
DigitChars == <<"0", "1", "2", "3", "4", "5", "6", "7", "8", "9">>
IsDigit(c) == \E d \in 1..Len(DigitChars) : DigitChars[d] = c
DigitOf(c) == (CHOOSE d \in 1..Len(DigitChars) : DigitChars[d] = c) - 1

RECURSIVE Trim(_)
Trim(t) ==
    IF t = <<>> THEN t
    ELSE IF t[1] \in WhiteSpace THEN Trim(Tail(t))
    ELSE IF t[Len(t)] \in WhiteSpace THEN Trim(SubSeq(t, 1, Len(t) - 1))
    ELSE t

\* The sign in front of a string, and the string without it.
Sign(t) == IF t # <<>> /\ t[1] = "-" THEN <<"-">> ELSE <<>>
Unsigned(t) == IF t # <<>> /\ t[1] \in {"+", "-"} THEN Tail(t) ELSE t

RECURSIVE Decimal(_)
Decimal(t) ==
    IF t = <<>> THEN 0
    ELSE 10 * Decimal(SubSeq(t, 1, Len(t) - 1)) + DigitOf(t[Len(t)])

\* A number: a - or none, then digits, the first of them 0 only when it is
\* the only one.
IsPlainInt(t) ==
    LET d == IF Sign(t) = <<>> THEN t ELSE Tail(t)
    IN /\ d # <<>>
       /\ \A i \in 1..Len(d) : IsDigit(d[i])
       /\ Len(d) > 1 => d[1] # "0"
PlainInt(t) == IF Sign(t) = <<>> THEN Decimal(t) ELSE 0 - Decimal(Tail(t))

\* The zeros in front are dropped, and underscores among them: the string
\* must start with a digit, and after zeros come a digit, a - or a point
\* (the zero before a point stays).
strip_leading_zeros(t) ==
    IF t = <<>> THEN Nothing
    ELSE IF t[1] = "0"
    THEN LET rest == { i \in 2..Len(t) : t[i] \notin {"0", "_"} }
         IN IF rest = {} THEN Some(<<t[Len(t)]>>)
            ELSE LET i == CHOOSE k \in rest : \A l \in rest : k <= l
                 IN IF IsDigit(t[i]) \/ t[i] = "-" THEN Some(SubSeq(t, i, Len(t)))
                    ELSE IF t[i] = "." THEN Some(SubSeq(t, i - 1, Len(t)))
                    ELSE Nothing
    ELSE IF IsDigit(t[1]) THEN Some(t)
    ELSE Nothing

\* A point followed by zeros, at least one, and nothing else is dropped.
strip_decimal_zeros(t) ==
    LET dots == { i \in 1..Len(t) : t[i] = "." }
    IN IF dots = {} THEN t
       ELSE LET i == CHOOSE k \in dots : \A l \in dots : k <= l
            IN IF i < Len(t) /\ \A k \in (i + 1)..Len(t) : t[k] = "0"
               THEN SubSeq(t, 1, i - 1)
               ELSE t

strip_underscores(t) ==
    LET NotUnderscore(c) == c # "_"
    IN IF \/ t = <<>>
          \/ t[1] = "_"
          \/ t[Len(t)] = "_"
          \/ \A i \in 1..Len(t) : t[i] # "_"
          \/ \E i \in 1..(Len(t) - 1) : t[i] = "_" /\ t[i + 1] = "_"
       THEN Nothing
       ELSE Some(SelectSeq(t, NotUnderscore))

\* The cleaned string, if cleaning changed the string.
clean_int_str(t) ==
    LET z == strip_leading_zeros(Unsigned(t))
    IN IF ~IsSome(z) THEN Nothing
       ELSE LET d == strip_decimal_zeros(z.some)
                u == strip_underscores(d)
            IN IF IsSome(u) THEN Some(Sign(t) \o u.some)
               ELSE IF Len(Sign(t) \o d) = Len(t) THEN Nothing
               ELSE Some(Sign(t) \o d)

str_as_int(t) ==
    LET s == Trim(t)
    IN IF IsPlainInt(s) THEN Some(PlainInt(s))
       ELSE LET c == clean_int_str(s)
            IN IF IsSome(c) /\ IsPlainInt(c.some) THEN Some(PlainInt(c.some))
               ELSE Nothing

IsInt(x) == DOMAIN x = {"int"} \/ IsSome(str_as_int(x.str))
AsInt(x) == IF DOMAIN x = {"int"} THEN x ELSE JInt(str_as_int(x.str).some)

\* Validation of a decoded object (every key once, see Dict) against the
\* prototype: a field that is sent must hold an integer or a string that
\* reads as one, above the field's bound if it has one; a field that is not
\* sent must have a default; keys that are no fields are ignored.
Conforms(p, o) ==
    \A i \in 1..Len(p.fields) :
        IF p.fields[i] \in Keys(o)
        THEN /\ IsInt(Get(o, p.fields[i]))
             /\ DOMAIN p.bounds[i] = {"gt"} => AsInt(Get(o, p.fields[i])).int > p.bounds[i].gt
        ELSE p.defaults[i] # Required

FieldValue(p, o, i) ==
    IF p.fields[i] \in Keys(o) THEN AsInt(Get(o, p.fields[i])) ELSE p.defaults[i]

\* The validated instance: the fields in declaration order.
Instance(p, o) == [i \in 1..Len(p.fields) |-> <<p.fields[i], FieldValue(p, o, i)>>]

\* _prepare_data: the values of the instance, in iteration order.
prepare_data(pred_data) ==
    [kind |-> "list", v |-> [i \in 1..Len(pred_data) |-> pred_data[i][2]]]

\* _batch_data: a frame whose columns are the keys of the first instance.
batch_data(pred_data) ==
    LET columns == [i \in 1..Len(pred_data[1]) |-> pred_data[1][i][1]]
    IN [kind |-> "DataFrame", columns |-> columns,
        rows |-> [r \in 1..Len(pred_data) |->
                    [c \in 1..Len(columns) |-> Get(pred_data[r], columns[c])]]]

\* The model's predict on one row: the output is whatever the trained model
\* gives for it.
Predict(row) == [predict_of |-> row]

\* model.handler_predict: the model's predict may raise; otherwise a frame
\* is predicted row by row, a bare list is one row, a decoded body goes in
\* as it came, and there is one output per row.
handler_predict(served_data, raises) ==
    IF raises THEN [error |-> TRUE, value |-> <<>>]
    ELSE [error |-> FALSE,
          value |-> IF served_data.kind = "DataFrame"
                    THEN [i \in 1..Len(served_data.rows) |-> Predict(served_data.rows[i])]
                    ELSE IF served_data.kind = "list"
                    THEN << Predict(served_data.v) >>
                    ELSE [i \in 1..Len(served_data.v.v) |-> Predict(served_data.v.v[i])]]

\* What a request came to: the response, and for the record the arguments
\* of the calls of handler_predict it made, in order, and the body it sent.
Response(method, path, status, body, calls) ==
    [method |-> method, path |-> path, status |-> status, body |-> body,
     calls |-> calls, request |-> [kind |-> "none"]]

\* An exception that leaves a handler is answered 500.
ServerError(path, detail, calls) ==
    Response("POST", path, 500, [detail |-> detail], calls)

\* One call of handler_predict and its answer.
Predicted(path, served_data, raises) ==
    LET y == handler_predict(served_data, raises)
    IN IF y.error THEN ServerError(path, "Internal Server Error", <<served_data>>)
       ELSE Response("POST", path, 200, [prediction |-> y.value], <<served_data>>)

\* A call of handler_predict for every instance.
prediction_strict_per_instance(m, path, body, raises) ==
    LET p == m.ptype
        d == json(body)
        rows == [i \in 1..Len(d.v) |-> prepare_data(Instance(p, d.v[i]))]
    IN IF \E i \in 1..Len(d.v) : ~Conforms(p, d.v[i])
       THEN Response("POST", path, 422, [detail |-> "SchemaViolation"], <<>>)
       ELSE IF raises THEN ServerError(path, "Internal Server Error", rows)
       ELSE Response("POST", path, 200,
                     [prediction |-> [i \in 1..Len(rows) |->
                                         handler_predict(rows[i], FALSE).value[1]]],
                     rows)

\* Lines 94-108: the strict prediction route.  The framework validates the
\* decoded body against Union[ptype, List[ptype]]; the handler builds
\* served_data and calls handler_predict.
prediction_strict(m, path, body, raises) ==
    LET p == m.ptype
        d == json(body)
    IN IF \E i \in 1..Len(d.v) : ~Conforms(p, d.v[i])
       THEN Response("POST", path, 422, [detail |-> "SchemaViolation"], <<>>)
       ELSE IF d.kind = "array"
       THEN IF d.v = <<>>
            THEN ServerError(path, "IndexError", <<>>)
            ELSE Predicted(path, batch_data([i \in 1..Len(d.v) |-> Instance(p, d.v[i])]),
                           raises)
       ELSE Predicted(path, prepare_data(Instance(p, d.v[1])), raises)

\* Lines 112-117: the prediction route without the prototype check, from the
\* body on; the decoded body goes to handler_predict as it came.
prediction_raw(m, path, body, raises) ==
    Predicted(path, [kind |-> "raw", v |-> json(body)], raises)

\* endpoint_fx is the caller's function: on a given series it raises or
\* returns a result, kept here as the application it is.
endpoint_fx(series) == [endpoint_fx_of |-> series]

\* Lines 140-153: the handler vetiver_post attaches, from the body on.
custom_endpoint(a, m, route, body, raises) ==
    LET strict == a.check_ptype
        d == json(body)
        valid == ~strict \/ (d.kind = "object" /\ Conforms(m.ptype, d.v[1]))
    IN IF ~valid
       THEN Response("POST", route.path, 422, [detail |-> "SchemaViolation"], <<>>)
       ELSE IF raises
       THEN ServerError(route.path, "Internal Server Error", <<>>)
       ELSE LET y == IF strict THEN prepare_data(Instance(m.ptype, d.v[1]))
                               ELSE [kind |-> "raw", v |-> d]
            IN Response("POST", route.path, 200,
                        [k \in {route.name} |-> endpoint_fx(y)], <<>>)

\* Line 161: is there a cached description?
Cached_never(a) == FALSE
Cached(a) == a.openapi_schema # None

\* The router: the first route whose path and method match handles the
\* request; a path known under another method is 405.
Matching(routes, method, path) ==
    { i \in 1..Len(routes) : routes[i].path = path /\ routes[i].method = method }

\* redirect_slashes: a path that ends in a slash is tried without the
\* slashes at its end, any other with one slash added.
Toggled(path) == IF path.slashes > 0 THEN Path(path.stem, 0) ELSE Path(path.stem, 1)

\* What the router does with a request before any handler runs: the route
\* that takes it, or the answer of the router itself: 405, or 307 to the
\* toggled path when some route has that path, or 404.
Resolve(a, method, path) ==
    LET hits == Matching(a.routes, method, path)
    IN IF hits # {}
       THEN LET first == CHOOSE i \in hits : \A k \in hits : i <= k
            IN [route |-> a.routes[first], place |-> first]
       ELSE IF \E i \in 1..Len(a.routes) : a.routes[i].path = path
       THEN [response |-> Response(method, path, 405, [detail |-> "Method Not Allowed"], <<>>)]
       ELSE IF path # Root /\ \E i \in 1..Len(a.routes) : a.routes[i].path = Toggled(path)
       THEN [response |-> Response(method, path, 307, [location |-> Toggled(path)], <<>>)]
       ELSE [response |-> Response(method, path, 404, [detail |-> "Not Found"], <<>>)]

Routed(r) == "route" \in DOMAIN r

\* The handler of a route, on the request it was given.
Endpoint(a, m, route, method, path, body, raises) ==
    CASE route.handler = "docs_redirect" ->
              Response(method, path, 307, [location |-> Path("/__docs__", 0)], <<>>)
      [] route.handler = "ping" ->
              Response(method, path, 200, [ping |-> "pong"], <<>>)
      [] route.handler = "rapidoc_pg" ->
              Response(method, path, 200, [html |-> "/openapi.json"], <<>>)
      [] route.handler \in {"swagger_ui_html", "swagger_ui_redirect", "redoc_html"} ->
              Response(method, path, 200, [html |-> route.handler], <<>>)
      [] route.handler = "openapi" ->
              Response(method, path, 200,
                       IF Cached(a) THEN a.openapi_schema ELSE get_openapi(m, a.routes),
                       <<>>)
      [] route.handler = "prediction" ->
              IF a.check_ptype THEN prediction_strict(m, path, body, raises)
              ELSE prediction_raw(m, path, body, raises)
      [] route.handler = "custom_endpoint" ->
              custom_endpoint(a, m, route, body, raises)

Dispatch(a, m, method, path, body, raises) ==
    LET r == Resolve(a, method, path)
    IN IF Routed(r) THEN Endpoint(a, m, r.route, method, path, body, raises)
       ELSE r.response

\* app.openapi is _custom_openapi: the description it computes is kept on
\* the app (line 170).
Store(a, m, method, path) ==
    LET r == Resolve(a, method, path)
    IN IF Routed(r) /\ r.route.handler = "openapi" /\ ~Cached(a)
       THEN [a EXCEPT !.openapi_schema = get_openapi(m, a.routes)]
       ELSE a

NoBody == [kind |-> "none"]
NoResponse == Response("", Path("", 0), 0, [none |-> TRUE], <<>>)

EndpointNames == {"custom_endpoint", "predict"}
GetPaths ==
    { Root, Path("/ping", 0), Path("/ping", 1), Path("/__docs__", 0),
      Path("/metadata", 0), Path("/metadata", 1), Path("/predict", 1) }
\* The paths of the prediction routes, and the path of the default url of
\* vetiver_endpoint (line 213).
PostPaths == { Path("/" \o n, 1) : n \in EndpointNames } \cup { Path("/predict", 0) }

IdleReq == [pc |-> "idle", local |-> None]
Idle == \A r \in 1..MaxReqs : reqs[r].pc = "idle"

\* Before run() the caller drives the app itself (a test client): one call at
\* a time.  run() hands the thread to uvicorn until the process ends.
Live == api.state \in {"built", "serving"}
Turn(r) == api.state = "serving" \/ \A q \in 1..MaxReqs : q # r => reqs[q].pc = "idle"

\* How a request that reached a handler failed, if it did: refused by the
\* validation, or an exception of the handler by its name.
Failure(r) ==
    IF r.status = 422 THEN "SchemaViolation"
    ELSE IF r.status = 500 THEN r.body.detail
    ELSE ""

\* failures is a record of what has happened, no state of the program: it
\* takes the ways of failing in one order, a refused body, then an empty
\* batch, then an exception of a handler, so that it tells when requests
\* have failed in all of them.
FailureOrder == <<"SchemaViolation", "IndexError", "Internal Server Error">>
Failed(seen, r) ==
    IF \E k \in 1..Len(FailureOrder) :
          /\ FailureOrder[k] = Failure(r)
          /\ \A j \in 1..(k - 1) : FailureOrder[j] \in seen
    THEN seen \cup {Failure(r)}
    ELSE seen

(* Actions of the serving layer *)

Construct(check_ptype) ==
    /\ api.state = "uninit"
    /\ api' = VetiverAPI(model, check_ptype)
    /\ UNCHANGED <<model, pinVars, reqs, resp, docs, pending, failures>>

VetiverPost(endpoint_name) ==
    /\ api.state = "built"
    /\ Idle
    /\ Len(api.routes) < Len(FactoryRoutes) + Len(InitRoutes) + MaxPosts
    /\ api' = vetiver_post(api, model, endpoint_name)
    /\ UNCHANGED <<model, pinVars, reqs, resp, docs, pending, failures>>

Run ==
    /\ api.state = "built"
    /\ Idle
    /\ api' = [api EXCEPT !.state = "serving"]
    /\ UNCHANGED <<model, pinVars, reqs, resp, docs, pending, failures>>

Remove(q, i) == SubSeq(q, 1, i - 1) \o SubSeq(q, i + 1, Len(q))

\* The waiting requests are told apart by their routes only, so they are
\* kept in the order of the routes.
Insert(q, x) ==
    LET k == Cardinality({ i \in 1..Len(q) : q[i] <= x })
    IN SubSeq(q, 1, k) \o <<x>> \o SubSeq(q, k + 1, Len(q))

\* docs_redirect is a plain def (lines 55-58): the framework runs it in a
\* thread pool and awaits it.  The other GET handlers are async def and
\* await nothing.
Threaded(a, method, path) ==
    /\ Routed(Resolve(a, method, path))
    /\ Resolve(a, method, path).route.handler = "docs_redirect"

\* A GET request that is answered in one turn.
GetRequest(path) ==
    /\ Live
    /\ ~Threaded(api, "GET", path)
    /\ resp' = Dispatch(api, model, "GET", path, NoBody, FALSE)
    /\ api' = Store(api, model, "GET", path)
    /\ docs' = IF api' # api \/ (Routed(Resolve(api, "GET", path)) /\ Cached(api)
                                   /\ Resolve(api, "GET", path).route.handler = "openapi")
               THEN docs \cup {resp'.body} ELSE docs
    /\ failures' = Failed(failures, resp')
    /\ UNCHANGED <<model, pinVars, reqs, pending>>

\* A GET request whose handler runs in the thread pool: the route is chosen
\* and the request waits for the handler.
GetAwait(path) ==
    /\ Live
    /\ Len(pending) < MaxPending
    /\ Threaded(api, "GET", path)
    /\ pending' = Insert(pending, Resolve(api, "GET", path).place)
    /\ UNCHANGED <<model, pinVars, api, reqs, resp, docs, failures>>

\* The handler has returned.
GetResume(i) ==
    /\ i \in 1..Len(pending)
    /\ api.routes[pending[i]].method = "GET"
    /\ resp' = Endpoint(api, model, api.routes[pending[i]], "GET",
                         api.routes[pending[i]].path, NoBody, FALSE)
    /\ pending' = Remove(pending, i)
    /\ failures' = Failed(failures, resp')
    /\ UNCHANGED <<model, pinVars, api, reqs, docs>>

\* A POST that no route takes is answered by the router; its body is not read.
PostUnrouted(path) ==
    /\ Live
    /\ ~Routed(Resolve(api, "POST", path))
    /\ resp' = Resolve(api, "POST", path).response
    /\ failures' = Failed(failures, resp')
    /\ UNCHANGED <<model, pinVars, api, reqs, docs, pending>>

\* A POST that a route takes: the route is chosen, and the body is awaited,
\* by the framework for a handler declared over the prototype (lines 94-97,
\* 140-141), by the handler itself otherwise (lines 114, 150).
PostAwait(path) ==
    /\ Live
    /\ Len(pending) < MaxPending
    /\ Routed(Resolve(api, "POST", path))
    /\ pending' = Insert(pending, Resolve(api, "POST", path).place)
    /\ UNCHANGED <<model, pinVars, api, reqs, resp, docs, failures>>

\* The body has come: validation and the handler (lines 98-108, 142-145),
\* or the rest of the handler (lines 115-117, 151-153), with the model and
\* the app as they are now.
PostResume(i, body, raises) ==
    /\ i \in 1..Len(pending)
    /\ api.routes[pending[i]].method = "POST"
    /\ resp' = [Endpoint(api, model, api.routes[pending[i]], "POST",
                          api.routes[pending[i]].path, body, raises)
                    EXCEPT !.request = body]
    /\ pending' = Remove(pending, i)
    /\ failures' = Failed(failures, resp')
    /\ UNCHANGED <<model, pinVars, api, reqs, docs>>

(* GET /openapi.json runs app.openapi, which is _custom_openapi, in steps *)

\* Lines 161-162: a cached description is returned as it is.
DocCheck(r) ==
    /\ Live
    /\ Turn(r)
    /\ reqs[r].pc = "idle"
    /\ IF Cached(api)
       THEN /\ docs' = docs \cup {api.openapi_schema}
            /\ resp' = Response("GET", Path("/openapi.json", 0), 200, api.openapi_schema, <<>>)
            /\ UNCHANGED reqs
       ELSE /\ reqs' = [reqs EXCEPT ![r].pc = "compute"]
            /\ UNCHANGED <<docs, resp>>
    /\ UNCHANGED <<model, pinVars, api, pending, failures>>

\* Lines 163-169: the description of the routes attached now.
DocCompute(r) ==
    /\ reqs[r].pc = "compute"
    /\ reqs' = [reqs EXCEPT ![r] = [pc |-> "store", local |-> get_openapi(model, api.routes)]]
    /\ UNCHANGED <<model, pinVars, api, resp, docs, pending, failures>>

\* Line 170.
DocStore(r) ==
    /\ reqs[r].pc = "store"
    /\ api' = [api EXCEPT !.openapi_schema = reqs[r].local]
    /\ reqs' = [reqs EXCEPT ![r] = [pc |-> "return", local |-> None]]
    /\ UNCHANGED <<model, pinVars, resp, docs, pending, failures>>

\* Line 171: the value returned is read from the app again.
DocReturn(r) ==
    /\ reqs[r].pc = "return"
    /\ docs' = docs \cup {api.openapi_schema}
    /\ resp' = Response("GET", Path("/openapi.json", 0), 200, api.openapi_schema, <<>>)
    /\ reqs' = [reqs EXCEPT ![r] = IdleReq]
    /\ UNCHANGED <<model, pinVars, api, pending, failures>>

----------------------------------------------------------------------------
(* Specifications *)

Versions == {None} \cup { PyStr(i) : i \in 1..MaxWrites }

\* The packager: any board, any model.
InitPin ==
    /\ board \in { [allow_pickle_read |-> a, protocol |-> p, pins |-> <<>>, calls |-> 0] :
                      a \in BOOLEAN, p \in Protocols }
    /\ model \in ModelHandles
    /\ v = None
    /\ result = NoResult
    /\ given = <<>>
    /\ api = NoApp
    /\ reqs = [r \in 1..MaxReqs |-> IdleReq]
    /\ resp = NoResponse
    /\ docs = {}
    /\ pending = <<>>
    /\ failures = {}

NextPin ==
    \/ \E versioned \in BOOLEAN : PinWrite(versioned)
    \/ \E versioned \in BOOLEAN : PinWriteBack(versioned)
    \/ \E version \in Versions : PinRead(version)
    \/ GetBoardPkgs

SpecPin == InitPin /\ [][NextPin]_vars

\* The serving layer: a model with a schema, in the older shape (bounds and
\* defaults) or the current one.
ServedModels ==
    { Handle(l, IF l THEN BoundedPrototype ELSE Prototype,
             VetiverMeta({}, None, None, <<"scikit-learn">>, None)) : l \in BOOLEAN }

InitServer ==
    /\ board = [allow_pickle_read |-> TRUE, protocol |-> PyStr("file"), pins |-> <<>>, calls |-> 0]
    /\ model \in ServedModels
    /\ v = None
    /\ result = NoResult
    /\ given = <<>>
    /\ api = NoApp
    /\ reqs = [r \in 1..MaxReqs |-> IdleReq]
    /\ resp = NoResponse
    /\ docs = {}
    /\ pending = <<>>
    /\ failures = {}

\* The routes answer the same way before and after run(), so the requests
\* are made on the built app, as the test client does; run() is a step of
\* NextDocs, where requests overlap once the app is serving.
NextServer ==
    \/ \E check_ptype \in BOOLEAN : Construct(check_ptype)
    \/ \E name \in EndpointNames : VetiverPost(name)
    \/ \E path \in GetPaths : GetRequest(path)
    \/ \E path \in GetPaths : GetAwait(path)
    \/ \E i \in 1..MaxPending : GetResume(i)
    \/ \E path \in PostPaths : PostUnrouted(path)
    \/ \E path \in PostPaths : PostAwait(path)
    \/ \E i \in 1..MaxPending, body \in Bodies, raises \in BOOLEAN :
          PostResume(i, body, raises)

SpecServer == InitServer /\ [][NextServer]_vars

\* The documentation requests of the serving layer, step by step.
NextDocs ==
    \/ \E check_ptype \in BOOLEAN : Construct(check_ptype)
    \/ \E name \in EndpointNames : VetiverPost(name)
    \/ Run
    \/ \E r \in 1..MaxReqs : DocCheck(r)
    \/ \E r \in 1..MaxReqs : DocCompute(r)
    \/ \E r \in 1..MaxReqs : DocStore(r)
    \/ \E r \in 1..MaxReqs : DocReturn(r)

SpecDocs == InitServer /\ [][NextDocs]_vars

----------------------------------------------------------------------------
(* Properties of the packager, under SpecPin *)

Persisted(i) == board.pins[i].metadata.vetiver_meta

\* C1: on a board whose allow_pickle_read is false, vetiver_pin_write raises
\* before it touches the store: board.pin_write is never called and the board
\* holds what it held before, whatever the model and versioned.
C1_CapabilityPrecondition ==
    ~board.allow_pickle_read =>
        /\ board.calls = 0
        /\ board.pins = <<>>
        /\ result.op = "vetiver_pin_write" => result.error = "NotImplementedError"

C1_Witness ==
    /\ ~board.allow_pickle_read
    /\ result.op = "vetiver_pin_write"
    /\ result.error = "NotImplementedError"
    /\ board.calls = 0

\* C2: the persisted required-package list holds every identifier at most
\* once: the backend-inferred ones, then the declared ones not yet seen.
C2_MergeDeduplicates ==
    \A i \in 1..Len(board.pins) : NoDup(Persisted(i).required_pkgs)

\* The fixed identifiers of a recognized protocol tag.
BoardPkgsTable ==
    [t \in {"rsc", "file", "s3", "s3a", "abfs", "gcs", "gs"} |->
        CASE t = "rsc" -> <<"rsconnect-python">>
          [] t = "file" -> <<>>
          [] t \in {"s3", "s3a"} -> <<"s3fs">>
          [] t = "abfs" -> <<"adlfs">>
          [] t \in {"gcs", "gs"} -> <<"gcsfs">>]

\* C7: get_board_pkgs is a lookup on the protocol tag: every recognized tag
\* gives its fixed identifiers without a warning, and the empty result with
\* the warning is for the tags outside the recognized set only.
C7_RecognizedTags ==
    (result.op = "get_board_pkgs" /\ board.protocol.kind = "str") =>
        LET tag == board.protocol.v[1]
        IN IF tag \in DOMAIN BoardPkgsTable
           THEN result.value = BoardPkgsTable[tag] /\ ~result.warned
           ELSE result.value = <<>> /\ result.warned

\* The Metadata Record of a handle as it was handed in, in either shape.
UserOf(h) == IF h.metadata.kind = "dict" THEN h.metadata.items ELSE h.metadata.user
PkgsOf(h) == IF h.metadata.kind = "dict" THEN <<>> ELSE h.metadata.required_pkgs
VersionOf(h) == IF h.metadata.kind = "dict" THEN None ELSE h.metadata.python_version
SchemaOf(h) == IF "ptype" \in h.attrs THEN h.ptype ELSE h.prototype

\* a, read back, against b, written: a version tuple comes back with the
\* same elements.
SameVersion(a, b) == IF a = None \/ b = None THEN a = b ELSE a.v = b.v

\* C9: a handle read back from the board has the user data, required
\* packages, prototype and python version of the handle that was handed to
\* the write of that version, whether that was the caller's model or a
\* handle read back before (a write/read cycle).
C9_WriteReadFidelity ==
    v # None =>
        LET M == given[v.metadata.version.v[1]]
        IN /\ v.metadata.user = UserOf(M)
           /\ v.metadata.required_pkgs = PkgsOf(M)
           /\ v.prototype = SchemaOf(M)
           /\ SameVersion(v.metadata.python_version, VersionOf(M))

\* C10: no operation changes the model handle it was given: the model has
\* the same attributes, bound to the same values, after every step.
C10_HandleImmutable == [][model' = model]_vars

----------------------------------------------------------------------------
(* Properties of the serving layer, under SpecServer *)

\* C3: registering an endpoint name twice is refused, so no path and method
\* ever has two routes attached.
C3_NoDuplicateRoutes ==
    \A i, j \in 1..Len(api.routes) :
        (api.routes[i].path = api.routes[j].path
            /\ api.routes[i].method = api.routes[j].method) => i = j

\* A request of one instance or of n >= 1 instances that the strict predict
\* route has answered and the validation did not refuse.
StrictPredict ==
    /\ api.check_ptype
    /\ resp.method = "POST"
    /\ resp.path = Path("/predict", 1)
    /\ resp.status # 422
    /\ resp.request.v # <<>>

\* The values of object o, as sent, in the order of the prototype's fields:
\* the integer sent last under the field's name, or the one a string sent
\* reads as, and the default where o has no such key.
InFieldOrder(o) ==
    [i \in 1..Len(model.ptype.fields) |->
        LET sent == { k \in 1..Len(o) : o[k][1] = model.ptype.fields[i] }
        IN IF sent = {} THEN model.ptype.defaults[i]
           ELSE AsInt(o[CHOOSE k \in sent : \A l \in sent : l <= k][2])]

\* C5: in strict mode a valid prediction request makes one call of
\* handler_predict, also when that call raises: one instance goes in as one
\* row of values in field order, a sequence of n instances as one frame of n
\* rows whose columns are the prototype's fields in order; and the answer,
\* unless the call raised, has one output per instance.
C5_StrictPredictOnce ==
    StrictPredict =>
        /\ Len(resp.calls) = 1
        /\ resp.status \in {200, 500}
        /\ resp.status = 200 => Len(resp.body.prediction) = Len(resp.request.v)
        /\ resp.status = 500 => resp.body.detail = "Internal Server Error"
        /\ IF resp.request.kind = "object"
           THEN /\ resp.calls[1].kind = "list"
                /\ resp.calls[1].v = InFieldOrder(resp.request.v[1])
           ELSE /\ resp.calls[1].kind = "DataFrame"
                /\ resp.calls[1].columns = model.ptype.fields
                /\ Len(resp.calls[1].rows) = Len(resp.request.v)
                /\ \A r \in 1..Len(resp.request.v) :
                      resp.calls[1].rows[r] = InFieldOrder(resp.request.v[r])

C5_Witness ==
    /\ StrictPredict
    /\ resp.status = 200
    /\ resp.request.kind = "array"
    /\ Len(resp.request.v) = 2
    /\ resp.request.v[1] # resp.request.v[2]
    /\ Len(resp.calls) = 1
    /\ Len(resp.body.prediction) = 2

\* C6: on a constructed server GET /metadata succeeds, and its body has
\* exactly the keys user, version, url, required_pkgs and python_version.
C6_MetadataRoute ==
    (resp.method = "GET" /\ resp.path = Path("/metadata", 0)) =>
        /\ resp.status = 200
        /\ DOMAIN resp.body = {"user", "version", "url", "required_pkgs", "python_version"}

Pong == [ping |-> "pong"]

\* C8: on a constructed server GET /ping answers 200 {"ping": "pong"} in
\* every state, whatever requests came before, however they ended, and
\* whatever request waits for its body or its handler.
C8_PingAlways ==
    /\ Live => LET r == Dispatch(api, model, "GET", Path("/ping", 0), NoBody, FALSE)
               IN r.status = 200 /\ r.body = Pong
    /\ (resp.method = "GET" /\ resp.path = Path("/ping", 0)) =>
            (resp.status = 200 /\ resp.body = Pong)

C8_Witness ==
    /\ api.check_ptype
    /\ {"SchemaViolation", "IndexError", "Internal Server Error"} \subseteq failures
    /\ pending # <<>>
    /\ Len(api.routes) > Len(FactoryRoutes) + Len(InitRoutes)
    /\ resp.method = "GET"
    /\ resp.path = Path("/ping", 0)
    /\ resp.status = 200
    /\ resp.body = Pong

----------------------------------------------------------------------------
(* Properties of the documentation requests, under SpecDocs *)

\* C4: every documentation request returns the same description, also when
\* several first requests all find the cache empty, and a description that
\* has been cached is never replaced by a different one.
C4_DocsStable ==
    /\ [](Cardinality(docs) <= 1)
    /\ [][api.openapi_schema # None => api.openapi_schema' = api.openapi_schema]_vars

C4_Witness ==
    /\ api.state = "serving"
    /\ docs # {}
    /\ \E r \in 1..MaxReqs : reqs[r].pc = "store"
    /\ Len(api.routes) > Len(FactoryRoutes) + Len(InitRoutes)

====
